---- MODULE Spec2Model ----
(***************************************************************************)
(* galpy: the inverse action-angle mapper for one-dimensional potentials   *)
(* (actionAngleVerticalInverse.py) and the adaptive leapfrog integrators   *)
(* (bovy_symplecticode.py).                                                *)
(*                                                                         *)
(* Two programs share this module.  Spec is the life of one                *)
(* actionAngleVerticalInverse object (construction, then queries);         *)
(* SpecLeapfrog is one call of _leapfrog or leapfrog_cyl.                  *)
(*                                                                         *)
(* Numbers.  Floating-point quantities are scaled integers:                *)
(*   - times are counted in ticks, TicksPerDt ticks to the sample spacing  *)
(*     t[1]-t[0], so that every step the estimator can return, its half    *)
(*     and its quarter are whole numbers of ticks (halving is exact, as it *)
(*     is for binary floating point);                                      *)
(*   - phase-space coordinates are integers and a product with a time      *)
(*     step is rounded down to the grid (MulDt);                           *)
(*   - the results of a floating-point division, which may be inf or nan,  *)
(*     are records [n, d] (FDiv).                                          *)
(***************************************************************************)
EXTENDS Integers, Sequences, FiniteSets, TLC

VARIABLES
    \* ---- leapfrog integrators (bovy_symplecticode.py) ----
    proc,        \* which integrator is called: "_leapfrog" or "leapfrog_cyl"
    meridional,  \* leapfrog_cyl's meridional argument
    yo,          \* the caller's initial condition
    nt,          \* len(t)
    spacing,     \* t[1]-t[0] in ticks (negative: backward integration)
    rtol, atol,  \* the tolerances, 0 or 1
    lpc,         \* position in the call
    y,           \* the integrator's working state (qo ++ po, or y)
    ey,          \* the state handed to the step estimator
    out,         \* the output array, one row per time
    dt,          \* the (trial) step, in ticks
    init_dt,     \* the sample spacing as saved by the integrator
    ndt,         \* sub-steps per output interval
    to,          \* the internal time, in ticks since t[0]
    ii,          \* the row the integration loop writes next (0-based)
    err,         \* the estimator's error, as a class
    nest,        \* iterations of the estimator's halving loop
    nkick,       \* kick (force) evaluations in the integration loop
    accept,      \* trial steps whose discrepancy exceeds a positive scale
    dzero,       \* the one-step and two-half-step results agree exactly
    lraised,     \* the exception the call raised, "none" if none
    \* ---- actionAngleVerticalInverse (actionAngleVerticalInverse.py) ----
    pot,         \* the potential handed to the constructor
    nE,          \* len(Es): the number of tori
    nta,         \* the number of grid angles per torus
    tpc,         \* position in __init__: "new", "newton", "mirror", "built"
    self,        \* the attributes of the object
    xgrid,       \* _create_xgrid's xgrid[torus][column]
    unconv,      \* _create_xgrid's mask of unconverged elements
    ta,          \* _create_xgrid's auxiliary angles of xgrid
    cntr,        \* _create_xgrid's iteration counter
    twarned,     \* _create_xgrid printed its non-convergence warning
    traised,     \* the exception __init__ raised, "none" if none
    xseed,       \* history: the seed grid the refinement started from
    xraw,        \* history: xgrid+dx of the last update, before clamping
    xsrc,        \* history: the column each column was last mirrored from
    qpc,         \* position in a query: "idle", "newton", "exit",
                 \* "returned", "raised"
    qproc,       \* the query running: "_evaluate", "_xvFreqs" or "_Freqs"
    qj,          \* the query's action argument
    heap,        \* the arrays of a query: the caller's and the query's own
    anglea,      \* which array of the heap the query's anglea refers to
    indx,        \* the torus the lookup selected
    qunconv,     \* _xvFreqs's mask of unconverged elements
    qta,         \* _xvFreqs's mapped angles
    qcntr,       \* _xvFreqs's iteration counter
    qwarned,     \* _xvFreqs printed its non-convergence warning
    qraised,     \* the exception the query raised, "none" if none
    qresult      \* what the query returned

lvars == <<proc, meridional, yo, nt, spacing, rtol, atol, lpc, y, ey, out,
           dt, init_dt, ndt, to, ii, err, nest, nkick, accept, dzero,
           lraised>>

tvars == <<pot, nE, nta, tpc, self, xgrid, unconv, ta, cntr, twarned, traised,
           xseed, xraw, xsrc, qpc, qproc, qj, heap, anglea, indx, qunconv,
           qta, qcntr, qwarned, qraised, qresult>>

vars == <<lvars, tvars>>

-----------------------------------------------------------------------------
(* Bounds of the model. *)

\* The longest time grid: len(t) ranges over 2..MaxNT.
MaxNT == 3
\* The first coordinate of an initial condition ranges over 0, 2, .., 2*MaxR.
MaxR == 1

-----------------------------------------------------------------------------
(* Arithmetic helpers. *)

Abs(a) == IF a < 0 THEN -a ELSE a

Sign(a) == IF a < 0 THEN -1 ELSE IF a > 0 THEN 1 ELSE 0

RECURSIVE GCD(_, _)
GCD(a, b) == IF b = 0 THEN a ELSE GCD(b, a % b)

\* A finite float with an integer value.
Fin(a) == [n |-> a, d |-> 1]

NaN == [n |-> 0, d |-> 0]

\* IEEE division of two finite numbers a/b: nan for 0/0, +-inf for a/0, and
\* the exact quotient (a reduced fraction) otherwise.
FDiv(a, b) ==
    IF b = 0 THEN [n |-> Sign(a), d |-> 0]
    ELSE LET g == GCD(Abs(a), Abs(b))
         IN  [n |-> (Sign(b) * a) \div g, d |-> Abs(b) \div g]

-----------------------------------------------------------------------------
(*                 bovy_symplecticode.py: the integrators                  *)

\* _MAX_DT_REDUCE= 10000.
MAX_DT_REDUCE == 10000

\* Ticks to the sample spacing t[1]-t[0].  The estimator starts from twice
\* the spacing and halves at most 15 times, and evaluates the kick a quarter
\* step in: with 2^16 ticks every such time is a whole number of ticks.
TicksPerDt == 2^16

\* The largest number of trial steps whose discrepancy exceeds a positive
\* tolerance scale before one is accepted.
MaxAccept == 2

\* a*dt for a time step of dt ticks, in the coordinates' units (time unit:
\* the sample spacing), rounded down to the coordinate grid.
MulDt(a, step) == (a * step) \div TicksPerDt

VAdd(u, v) == [i \in 1..Len(u) |-> u[i] + v[i]]

VSub(u, v) == [i \in 1..Len(u) |-> u[i] - v[i]]

VMulDt(u, step) == [i \in 1..Len(u) |-> MulDt(u[i], step)]

\* The caller's force function of _leapfrog, func(q,*args,t=t).  The model's
\* callbacks are those of force-free motion: the trajectory is then the same
\* increment every sub-step.  What the step estimator sees of the callbacks,
\* the discrepancy between one step and two half steps, is an input of its
\* own (accept, dzero).
func(q, t) == [i \in 1..Len(q) |-> 0]

\* For component i of a cylindrical state of length L, the component that is
\* its time derivative (0: none).  [R,vR,vT,z,vz,phi] and galpy's subsets;
\* in meridional mode there is no vT: [R,vR,z,vz] or [R,vR].
VelOf(i, L, mer) ==
    IF i = 1 THEN 2
    ELSE IF L = 6 /\ i = 4 THEN 5
    ELSE IF L = 6 /\ i = 6 THEN 3
    ELSE IF L = 4 /\ mer = 0 /\ i = 4 THEN 3
    ELSE IF L = 4 /\ mer # 0 /\ i = 3 THEN 4
    ELSE 0

\* The caller's drift function of leapfrog_cyl: drift(y).
drift(yv, mer) ==
    [i \in 1..Len(yv) |->
        IF VelOf(i, Len(yv), mer) = 0 THEN 0 ELSE yv[VelOf(i, Len(yv), mer)]]

\* The caller's kick function of leapfrog_cyl: kick(y,*args,t=t).
kick(yv, mer, t) == [j \in 1..Len(yv) |-> 0]

leapfrog_leapq(q, p, step) == VAdd(q, VMulDt(p, step))

leapfrog_leapp(p, step, force) == VAdd(p, VMulDt(force, step))

\* The halves of a Cartesian state: qo= yo[0:len(yo)//2], po= the rest.
QPart(v) == SubSeq(v, 1, Len(v) \div 2)

PPart(v) == SubSeq(v, Len(v) \div 2 + 1, Len(v))

(* Classes of non-negative floating-point values. *)

\* A non-negative float is "zero", "pos" (finite and positive), "inf" or "nan".
Cls(a) == IF a = 0 THEN "zero" ELSE "pos"

CAdd(a, b) ==
    IF a = "nan" \/ b = "nan" THEN "nan"
    ELSE IF a = "inf" \/ b = "inf" THEN "inf"
    ELSE IF a = "pos" \/ b = "pos" THEN "pos"
    ELSE "zero"

CMul(a, b) ==
    IF a = "nan" \/ b = "nan" THEN "nan"
    ELSE IF {a, b} = {"zero", "inf"} THEN "nan"
    ELSE IF a = "inf" \/ b = "inf" THEN "inf"
    ELSE IF a = "zero" \/ b = "zero" THEN "zero"
    ELSE "pos"

\* The class of (a/b)**2.
CDivSq(a, b) ==
    IF b = 0 THEN (IF a = 0 THEN "nan" ELSE "inf") ELSE Cls(a)

\* atol+rtol*x
TolScale(x) == CAdd(Cls(atol), CMul(Cls(rtol), x))

MaxAbs(v) == CHOOSE m \in {Abs(v[i]) : i \in 1..Len(v)} :
                 \A i \in 1..Len(v) : Abs(v[i]) <= m

\* scale of _leapfrog_estimate_step.
leapfrog_scale(v) ==
    [i \in 1..Len(v) |->
        IF i <= Len(v) \div 2 THEN TolScale(Cls(MaxAbs(QPart(v))))
        ELSE TolScale(Cls(MaxAbs(PPart(v))))]

\* scale of _leapfrog_cyl_estimate_step, by its five branches.
leapfrog_cyl_scale(v, mer) ==
    IF Len(v) = 6 THEN
        LET xscale == CAdd(Cls(v[1]), Cls(v[4]))
            vscale == CAdd(CAdd(CDivSq(v[3], v[1]), Cls(v[2])), Cls(v[5]))
        IN  <<TolScale(xscale), TolScale(vscale), TolScale(CMul(vscale, xscale)),
              TolScale(xscale), TolScale(vscale), TolScale(xscale)>>
    ELSE IF mer # 0 /\ Len(v) = 4 THEN
        LET xscale == CAdd(Cls(v[1]), Cls(v[3]))
            vscale == CAdd(CAdd(CDivSq(mer, v[1]), Cls(v[2])), Cls(v[4]))
        IN  <<TolScale(xscale), TolScale(vscale), TolScale(xscale), TolScale(vscale)>>
    ELSE IF Len(v) = 4 THEN
        LET xscale == Cls(v[1])
            vscale == CAdd(CDivSq(v[3], v[1]), Cls(v[2]))
        IN  <<TolScale(xscale), TolScale(vscale), TolScale(CMul(vscale, xscale)),
              TolScale(xscale)>>
    ELSE IF mer # 0 /\ Len(v) = 2 THEN
        LET xscale == Cls(v[1])
            vscale == CAdd(CDivSq(mer, v[1]), Cls(v[2]))
        IN  <<TolScale(xscale), TolScale(vscale)>>
    ELSE <<TolScale(Cls(v[1])), TolScale(Cls(v[2]))>>

(* The error norm of the estimators. *)

\* delta of the trial step number k (0-based), componentwise as a class:
\* "zero", "below" (small against a positive scale) or "above" (large enough
\* that the mean exceeds 1).  The discrepancy of the first `accept` trial
\* steps is above any positive scale.
DeltaCls(k) == IF dzero THEN "zero" ELSE IF k < accept THEN "above" ELSE "below"

\* delta/scale for one component.
Term(d, s) ==
    IF s = "nan" THEN "nan"
    ELSE IF s = "zero" THEN (IF d = "zero" THEN "nan" ELSE "inf")
    ELSE IF s = "inf" THEN "zero"
    ELSE IF d = "zero" THEN "zero"
    ELSE IF d = "below" THEN "le1" ELSE "gt1"

\* err= nu.sqrt(nu.mean((delta/scale)**2.))
ErrNorm(terms) ==
    IF \E i \in 1..Len(terms) : terms[i] = "nan" THEN "nan"
    ELSE IF \E i \in 1..Len(terms) : terms[i] = "inf" THEN "inf"
    ELSE IF \E i \in 1..Len(terms) : terms[i] = "gt1" THEN "gt1"
    ELSE "le1"

\* err > 1.  (nan > 1. is False)
ErrGt1(e) == e \in {"inf", "gt1"}

\* a/b < m for floats a, b: a/0 is inf (or nan for 0/0), never below m for a >= 0.
RatioLt(a, b, m) ==
    IF b = 0 THEN a < 0
    ELSE IF b > 0 THEN a < m * b
    ELSE a > m * b

\* The loop condition without its cap on the reduction.
EstimateLoopCondNoCap(e, idt, step) == ErrGt1(e)

\* while err > 1. and init_dt/dt < _MAX_DT_REDUCE:
EstimateLoopCond(e, idt, step) == ErrGt1(e) /\ RatioLt(idt, step, MAX_DT_REDUCE)

\* delta of _leapfrog_estimate_step for the trial step number k.
leapfrog_delta(v, k) == [i \in 1..Len(v) |-> DeltaCls(k)]

\* delta of _leapfrog_cyl_estimate_step: the last component is multiplied by
\* yo[0] for six-dimensional and non-meridional four-dimensional states.
leapfrog_cyl_delta(v, mer, k) ==
    [i \in 1..Len(v) |->
        IF i = Len(v) /\ (Len(v) = 6 \/ (mer = 0 /\ Len(v) = 4)) /\ v[1] = 0
        THEN "zero" ELSE DeltaCls(k)]

\* int() replaced by rounding up past the quotient.
IntRatioUp(a, b) == Sign(a) * Sign(b) * (Abs(a) \div Abs(b) + 1)

\* ndt= int(init_dt/dt)
IntRatio(a, b) == Sign(a) * Sign(b) * (Abs(a) \div Abs(b))

ZeroRows(n, L) == [r \in 1..n |-> [i \in 1..L |-> Fin(0)]]

FinRow(v) == [i \in 1..Len(v) |-> Fin(v[i])]

(* _leapfrog *)

\* One pass of the inner loop of _leapfrog: drift, kick, drift.
leapfrog_substep(s, step) ==
    LET q12   == leapfrog_leapq(s.q, s.p, step \div 2)
        force == func(q12, s.to + step \div 2)
        p1    == leapfrog_leapp(s.p, step, force)
    IN  [q |-> leapfrog_leapq(q12, p1, step \div 2), p |-> p1,
         to |-> s.to + step, nk |-> s.nk + 1]

\* _leapfrog up to the estimator's loop: out[0,:]= yo, dt= t[1]-t[0],
\* and in the estimator err= 2., dt*= 2.
leapfrog_call ==
    /\ lpc = "call" /\ proc = "_leapfrog"
    /\ y' = yo
    /\ ey' = yo
    /\ out' = [ZeroRows(nt, Len(yo)) EXCEPT ![1] = FinRow(yo)]
    /\ init_dt' = spacing
    /\ dt' = 2 * spacing
    /\ err' = "gt1"
    /\ lpc' = "estimate"
    /\ UNCHANGED tvars
    /\ UNCHANGED <<proc, meridional, yo, nt, spacing, rtol, atol, ndt, to,
                   ii, nest, nkick, accept, dzero, lraised>>

\* One iteration of the while loop of _leapfrog_estimate_step.
leapfrog_estimate_step ==
    /\ lpc = "estimate" /\ proc = "_leapfrog"
    /\ EstimateLoopCond(err, init_dt, dt)
    /\ err' = ErrNorm([i \in 1..Len(ey) |->
                          Term(leapfrog_delta(ey, nest)[i], leapfrog_scale(ey)[i])])
    /\ dt' = dt \div 2
    /\ nest' = nest + 1
    /\ UNCHANGED tvars
    /\ UNCHANGED <<proc, meridional, yo, nt, spacing, rtol, atol, lpc, y, ey,
                   out, init_dt, ndt, to, ii, nkick, accept, dzero, lraised>>

\* The estimator returns dt to its integrator, which sets
\* ndt= int(init_dt/dt) and to= t[0].  (int() of the inf that a zero step
\* gives raises OverflowError.)
EstimatorReturns ==
    /\ lpc = "estimate"
    /\ ~EstimateLoopCond(err, init_dt, dt)
    /\ IF dt = 0
       THEN /\ lraised' = "OverflowError"
            /\ lpc' = "done"
            /\ UNCHANGED <<ndt, to, ii>>
       ELSE /\ ndt' = IntRatio(init_dt, dt)
            /\ to' = 0
            /\ ii' = 1
            /\ lpc' = "integrate"
            /\ UNCHANGED lraised
    /\ UNCHANGED tvars
    /\ UNCHANGED <<proc, meridional, yo, nt, spacing, rtol, atol, y, ey, out,
                   dt, init_dt, err, nest, nkick, accept, dzero>>

leapfrog_estimated == proc = "_leapfrog" /\ EstimatorReturns

\* for jj in range(ndt): n passes.  Without a force every pass adds what the
\* first one adds.
leapfrog_substeps(n, s, step) ==
    IF n <= 0 THEN s
    ELSE LET one == leapfrog_substep(s, step)
         IN  [q  |-> [i \in 1..Len(s.q) |-> s.q[i] + n * (one.q[i] - s.q[i])],
              p  |-> [i \in 1..Len(s.p) |-> s.p[i] + n * (one.p[i] - s.p[i])],
              to |-> s.to + n * (one.to - s.to),
              nk |-> s.nk + n * (one.nk - s.nk)]

\* One pass of for ii in range(1,len(t)): ndt sub-steps, then out[ii,:].
leapfrog_row ==
    /\ lpc = "integrate" /\ proc = "_leapfrog"
    /\ ii < nt
    /\ LET s == leapfrog_substeps(ndt, [q |-> QPart(y), p |-> PPart(y),
                                         to |-> to, nk |-> nkick], dt)
       IN  /\ y' = s.q \o s.p
           /\ out' = [out EXCEPT ![ii + 1] = FinRow(s.q \o s.p)]
           /\ to' = s.to
           /\ nkick' = s.nk
    /\ ii' = ii + 1
    /\ UNCHANGED tvars
    /\ UNCHANGED <<proc, meridional, yo, nt, spacing, rtol, atol, lpc, ey,
                   dt, init_dt, ndt, err, nest, accept, dzero, lraised>>

\* return out
leapfrog_return ==
    /\ lpc = "integrate" /\ proc = "_leapfrog"
    /\ ii >= nt
    /\ lpc' = "done"
    /\ UNCHANGED tvars
    /\ UNCHANGED <<proc, meridional, yo, nt, spacing, rtol, atol, y, ey, out,
                   dt, init_dt, ndt, to, ii, err, nest, nkick, accept,
                   dzero, lraised>>

(* leapfrog_cyl *)

\* vT --> Lz: y[2]*= y[0] unless meridional or the state has length 2.
ToLz(v, mer) ==
    IF mer = 0 /\ Len(v) # 2 THEN [v EXCEPT ![3] = v[3] * v[1]] ELSE v

\* Lz --> vT: out[:,2]/= out[:,0] under the same condition.
FromLz(o, mer, L) ==
    IF mer = 0 /\ L # 2
    THEN [r \in 1..Len(o) |-> [o[r] EXCEPT ![3] = FDiv(o[r][3].n, o[r][1].n)]]
    ELSE o

\* The state leapfrog_cyl hands to _leapfrog_cyl_estimate_step: yo.
EstimatorArg(yov, yv) == yov

\* One pass of the inner loop of leapfrog_cyl: kick, full drift.
leapfrog_cyl_substep(s, step, mer) ==
    LET k1 == VAdd(s.y12, VMulDt(kick(s.y12, mer, s.to + step \div 2), step))
    IN  [y12 |-> VAdd(k1, VMulDt(drift(k1, mer), step)),
         to |-> s.to + step, nk |-> s.nk + 1]

\* leapfrog_cyl up to the estimator's loop.
leapfrog_cyl_call ==
    /\ lpc = "call" /\ proc = "leapfrog_cyl"
    /\ y' = ToLz(yo, meridional)
    /\ ey' = EstimatorArg(yo, ToLz(yo, meridional))
    /\ out' = [ZeroRows(nt, Len(yo)) EXCEPT ![1] = FinRow(ToLz(yo, meridional))]
    /\ init_dt' = spacing
    /\ dt' = 2 * spacing
    /\ err' = "gt1"
    /\ lpc' = "estimate"
    /\ UNCHANGED tvars
    /\ UNCHANGED <<proc, meridional, yo, nt, spacing, rtol, atol, ndt, to,
                   ii, nest, nkick, accept, dzero, lraised>>

\* One iteration of the while loop of _leapfrog_cyl_estimate_step.
leapfrog_cyl_estimate_step ==
    /\ lpc = "estimate" /\ proc = "leapfrog_cyl"
    /\ EstimateLoopCond(err, init_dt, dt)
    /\ err' = ErrNorm([i \in 1..Len(ey) |->
                          Term(leapfrog_cyl_delta(ey, meridional, nest)[i],
                               leapfrog_cyl_scale(ey, meridional)[i])])
    /\ dt' = dt \div 2
    /\ nest' = nest + 1
    /\ UNCHANGED tvars
    /\ UNCHANGED <<proc, meridional, yo, nt, spacing, rtol, atol, lpc, y, ey,
                   out, init_dt, ndt, to, ii, nkick, accept, dzero, lraised>>

leapfrog_cyl_estimated == proc = "leapfrog_cyl" /\ EstimatorReturns

\* for jj in range(ndt): n passes, each adding what the first one adds.
leapfrog_cyl_substeps(n, s, step, mer) ==
    IF n <= 0 THEN s
    ELSE LET one == leapfrog_cyl_substep(s, step, mer)
         IN  [y12 |-> [i \in 1..Len(s.y12) |-> s.y12[i] + n * (one.y12[i] - s.y12[i])],
              to  |-> s.to + n * (one.to - s.to),
              nk  |-> s.nk + n * (one.nk - s.nk)]

\* One pass of for ii in range(1,len(t)): half drift, ndt kick-drift
\* sub-steps, half drift back, then out[ii,:]= y.
leapfrog_cyl_row ==
    /\ lpc = "integrate" /\ proc = "leapfrog_cyl"
    /\ ii < nt
    /\ LET dt2 == dt \div 2
           y12 == VAdd(y, VMulDt(drift(y, meridional), dt2))
           s   == leapfrog_cyl_substeps(ndt, [y12 |-> y12, to |-> to, nk |-> nkick],
                                        dt, meridional)
           yn  == VSub(s.y12, VMulDt(drift(s.y12, meridional), dt2))
       IN  /\ y' = yn
           /\ out' = [out EXCEPT ![ii + 1] = FinRow(yn)]
           /\ to' = s.to
           /\ nkick' = s.nk
    /\ ii' = ii + 1
    /\ UNCHANGED tvars
    /\ UNCHANGED <<proc, meridional, yo, nt, spacing, rtol, atol, lpc, ey,
                   dt, init_dt, ndt, err, nest, accept, dzero, lraised>>

\* Lz --> vT on the output; return out.
leapfrog_cyl_return ==
    /\ lpc = "integrate" /\ proc = "leapfrog_cyl"
    /\ ii >= nt
    /\ out' = FromLz(out, meridional, Len(yo))
    /\ lpc' = "done"
    /\ UNCHANGED tvars
    /\ UNCHANGED <<proc, meridional, yo, nt, spacing, rtol, atol, y, ey,
                   dt, init_dt, ndt, to, ii, err, nest, nkick, accept,
                   dzero, lraised>>

(* The calls the model makes. *)

\* No actionAngleVerticalInverse object exists during a call of an integrator.
TorusUnused ==
    /\ pot = "none" /\ nE = 0 /\ nta = 0 /\ tpc = "unused" /\ self = <<>>
    /\ xgrid = <<>> /\ unconv = <<>> /\ ta = <<>> /\ cntr = 0
    /\ twarned = FALSE /\ traised = "none"
    /\ xseed = <<>> /\ xraw = <<>> /\ xsrc = <<>>
    /\ qpc = "unused" /\ qproc = "none" /\ qj = 0 /\ heap = <<>>
    /\ anglea = "none" /\ indx = 0 /\ qunconv = <<>> /\ qta = <<>>
    /\ qcntr = 0 /\ qwarned = FALSE /\ qraised = "none" /\ qresult = <<>>

\* Initial conditions of length L: the first coordinate (a position; R for
\* leapfrog_cyl) ranges over 0, 2, .., 2*MaxR, the third is 3, the others are 1.
YoSet(L) ==
    {[i \in 1..L |-> IF i = 1 THEN 2 * r ELSE IF i = 3 THEN 3 ELSE 1] : r \in 0..MaxR}

LeapInit ==
    /\ proc \in {"_leapfrog", "leapfrog_cyl"}
    /\ meridional \in (IF proc = "_leapfrog" THEN {0} ELSE {0, 1})
    /\ yo \in UNION {YoSet(L) : L \in (IF proc = "_leapfrog" \/ meridional # 0
                                        THEN {2, 4} ELSE {2, 4, 6})}
    /\ nt \in 2..MaxNT
    /\ spacing \in {TicksPerDt, -TicksPerDt}
    /\ rtol \in {0, 1}
    /\ atol \in {0, 1}
    /\ dzero \in BOOLEAN
    /\ accept \in (IF dzero \/ (rtol = 0 /\ atol = 0) THEN {0} ELSE 0..MaxAccept)
    /\ lpc = "call"
    /\ y = <<>> /\ ey = <<>> /\ out = <<>>
    /\ dt = 0 /\ init_dt = 0 /\ ndt = 0 /\ to = 0 /\ ii = 0
    /\ err = "none" /\ nest = 0 /\ nkick = 0
    /\ lraised = "none"
    /\ TorusUnused

LeapNext ==
    \/ leapfrog_call
    \/ leapfrog_estimate_step
    \/ leapfrog_estimated
    \/ leapfrog_row
    \/ leapfrog_return
    \/ leapfrog_cyl_call
    \/ leapfrog_cyl_estimate_step
    \/ leapfrog_cyl_estimated
    \/ leapfrog_cyl_row
    \/ leapfrog_cyl_return

SpecLeapfrog == LeapInit /\ [][LeapNext]_vars

-----------------------------------------------------------------------------
(*        actionAngleVerticalInverse.py: the inverse action-angle map       *)
(*                                                                         *)
(* Numbers.  Angles are whole units, TwoPi units to the circle; positions  *)
(* are whole units, XM units to the turning point of the first torus;      *)
(* actions are counted in units of 1e-10, the lookup tolerance.  The       *)
(* potential, actionAngleVertical and the harmonic-oscillator maps are     *)
(* outside the two source files: the potential enters through a small      *)
(* family (pot) that fixes, per torus, the turning point, the frequency,   *)
(* the action, and the auxiliary angle and action as functions of x.       *)

\* The largest len(Es): the number of tori ranges over 1..MaxE.
MaxE == 2
\* The finest grid: nta ranges over 4, 8, .., 4*MaxQuads.
MaxQuads == 2

TwoPi == 24 * 100
Pi == TwoPi \div 2
Quarter == TwoPi \div 4
\* Position units to the turning point of the first torus.
XM == 2 * Quarter
\* sin and cos take values in -SinScale..SinScale.
SinScale == 10 * 10
\* d(ja)/dj is counted in units of 1/CoefDen.
CoefDen == 10 * 10
\* Angle units to the radian (pi ~ 22/7).
RadUnits == (TwoPi * 7) \div 44

\* maxiter= 100
maxiter == 100
\* tol= 1.e-12, in angle units
tol == 2
\* the lookup tolerance 1e-10, in action units
LookupTol == 1

\* Division of floats, rounded toward zero onto the grid.
TruncDiv(a, b) == Sign(a) * Sign(b) * (Abs(a) \div Abs(b))

Min(a, b) == IF a < b THEN a ELSE b

\* (d+numpy.pi) % (2.*numpy.pi)-numpy.pi
wrap(d) == ((d + Pi) % TwoPi) - Pi

\* numpy.sin on angle units (Bhaskara's rational approximation per half turn)
sin(a) ==
    LET r == a % TwoPi
        h == IF r <= Pi THEN r ELSE r - Pi
        b == (16 * h * (Pi - h) * SinScale) \div (5 * Pi * Pi - 4 * h * (Pi - h))
    IN IF r <= Pi THEN b ELSE -b

\* numpy.cos on angle units
cos(a) == sin(a + Quarter)

RECURSIVE SumUpTo(_, _, _)
\* numpy.sum of f over lo..hi
SumUpTo(f, lo, hi) == IF hi < lo THEN 0 ELSE f[hi] + SumUpTo(f, lo, hi - 1)

\* numpy.argmin over the index set S: the first index of the least value
argmin(f, S) ==
    CHOOSE i \in S : \A k \in S : f[i] < f[k] \/ (f[i] = f[k] /\ i <= k)

\* x[fabs(x) > m]= sign(x)*m
Clip(x, m) == IF Abs(x) > m THEN Sign(x) * m ELSE x

Tori == 1..nE
Cols == 0..(nta - 1)
\* self._nforSn after line 83
nforSn == 1..(nta \div 2)

\* self._thetaa= numpy.linspace(0.,2.*numpy.pi*(1.-1./nta),nta)
thetaa(k) == (k * TwoPi) \div nta

(* ---- what the potential and actionAngleVertical supply, per torus ---- *)

\* calcxmax: the turning point of torus e
xmaxOf(e) == e * XM
\* actionsFreqs: the frequency of torus e
OmegaOf(e) == 10 * e
\* actionsFreqs: the action of torus e
JOf(e) == 98 + 2 * e
\* The auxiliary angle reached at x = -xmax: a quarter turn when the
\* potential is even ("harmonic"), less when it is anharmonic and shallower
\* on the negative side ("lopsided"), where the velocity at -xmax is not zero.
aneg(e) == IF pot = "harmonic" THEN Quarter ELSE Quarter \div (e + 2)

\* _anglea: numpy.arctan2(omega*x,vsign*numpy.sqrt(v2)), v2 clipped at 0
_anglea(x, e, vsign) ==
    LET plus == IF x >= 0
                THEN Min(Quarter, (x * Quarter) \div xmaxOf(e))
                ELSE -Min(Quarter, ((-x) * aneg(e)) \div xmaxOf(e))
    IN IF vsign > 0 THEN plus
       ELSE IF x >= 0 THEN Pi - plus ELSE (-Pi) - plus

\* _danglea: d(anglea)/dx at constant E, angle units (n) per position units (d)
_danglea(x, e) ==
    IF x >= 0 THEN [n |-> Quarter, d |-> xmaxOf(e)]
              ELSE [n |-> aneg(e), d |-> xmaxOf(e)]

\* The strength of the odd part of d(ja)/dj on torus e, in units of 1/CoefDen
DjSkew(e) == 30 * e
\* The strength of its even part: the anharmonicity grows with the energy
DjEven(e) == 150 * e

\* x in tenths of xmax, cubed: the odd part of a lopsided potential
Cubic(x, e) == LET u == TruncDiv(10 * x, xmaxOf(e)) IN u * u * u
\* x in tenths of xmax, squared: its even part
Square(x, e) == LET u == TruncDiv(10 * x, xmaxOf(e)) IN u * u

\* _ja: (E-Phi(x))/omega+omega*x**2./2., constant for the harmonic potential
_ja(x, e) ==
    IF pot = "harmonic" THEN JOf(e)
    ELSE JOf(e) - TruncDiv(40 * Cubic(x, e), 1000)
                + TruncDiv(10 * Square(x, e), 100)

\* _djadj: 1 for the harmonic potential; in units of 1/CoefDen
_djadj(x, e) ==
    IF pot = "harmonic" THEN CoefDen
    ELSE CoefDen - TruncDiv(DjSkew(e) * Cubic(x, e), 1000)
                 + TruncDiv(DjEven(e) * Square(x, e), 100)

(* ---- __init__ and _create_xgrid ---- *)

\* xgrid= numpy.linspace(-1.,1.,2*self._nta), times xmax
SeedX(i, e) == TruncDiv(xmaxOf(e) * (2 * i - (2 * nta - 1)), 2 * nta - 1)

\* cindx: the seed whose auxiliary angle is closest to thetaa[k]
cindx(e, k) ==
    argmin([i \in 0..(2 * nta - 1) |->
               Abs(wrap(_anglea(SeedX(i, e), e, 1) - thetaa(k)))],
           0..(2 * nta - 1))

\* unconv[:,self._nta//4:3*self._nta//4+1]= False
Masked(k) == nta \div 4 <= k /\ k <= (3 * nta) \div 4

\* The same test with the tolerance itself counted as not converged.
still_unconv_strict(was, dta) == was /\ Abs(dta) >= tol

\* unconv[unconv]= numpy.fabs(dta) > tol (lines 113, 125, 221, 234): only
\* the elements still unconverged are tested, against the residual dta
\* taken before the update of the pass.
still_unconv(was, dta) == was /\ Abs(dta) > tol

\* dx= -dta/dtadx
NewtonStep(dta, dtadx) == -TruncDiv(dta * dtadx.d, dtadx.n)

\* maxdx: self._xmaxs/float(self._nta)
maxdx(e) == TruncDiv(xmaxOf(e), nta)

\* The position a value below -xmax is overwritten with (line 124):
\* xmaxgrid[unconv*(xgrid < -xmaxgrid)]
LowClampValue(e) == xmaxOf(e)

\* The loop's tests with the raise in the place of the break.
loop_exit_raise(nunconv, c) ==
    IF nunconv = 0 THEN "took"
    ELSE IF c > maxiter THEN "raise"
    ELSE "continue"

\* The tests that end a pass of either Newton loop: converged, over the
\* cap (warn and break), or go on.
loop_exit(nunconv, c) ==
    IF nunconv = 0 THEN "took"
    ELSE IF c > maxiter THEN "warning"
    ELSE "continue"

\* __init__ up to the Newton loop of _create_xgrid (lines 48-72, 91-115)
init_begin ==
    /\ tpc = "new"
    /\ self' = [Es |-> [e \in Tori |-> e],
                js |-> [e \in Tori |-> JOf(e)],
                Omegas |-> [e \in Tori |-> OmegaOf(e)],
                xmaxs |-> [e \in Tori |-> xmaxOf(e)],
                nta |-> nta,
                thetaa |-> [k \in Cols |-> thetaa(k)]]
    /\ LET seed == [e \in Tori |-> [k \in Cols |-> SeedX(cindx(e, k), e)]]
           ta0 == [e \in Tori |-> [k \in Cols |-> _anglea(seed[e][k], e, 1)]]
       IN /\ xgrid' = seed
          /\ xseed' = seed
          /\ xraw' = seed
          /\ ta' = ta0
          /\ unconv' = [e \in Tori |-> [k \in Cols |->
                           still_unconv(~Masked(k),
                                        wrap(ta0[e][k] - thetaa(k)))]]
    /\ cntr' = 0
    /\ xsrc' = [k \in Cols |-> -1]
    /\ tpc' = "newton"
    /\ UNCHANGED <<pot, nE, nta, twarned, traised, qpc, qproc, qj, heap,
                   anglea, indx, qunconv, qta, qcntr, qwarned, qraised,
                   qresult>>
    /\ UNCHANGED lvars

\* One pass of the Newton loop of _create_xgrid (lines 117-136)
create_xgrid_newton ==
    /\ tpc = "newton"
    /\ LET dta == [e \in Tori |-> [k \in Cols |-> wrap(ta[e][k] - thetaa(k))]]
           dx == [e \in Tori |-> [k \in Cols |->
                     Clip(NewtonStep(dta[e][k], _danglea(xgrid[e][k], e)),
                          maxdx(e))]]
           raw == [e \in Tori |-> [k \in Cols |->
                      IF unconv[e][k] THEN xgrid[e][k] + dx[e][k]
                                      ELSE xgrid[e][k]]]
           hi == [e \in Tori |-> [k \in Cols |->
                     IF unconv[e][k] /\ raw[e][k] > xmaxOf(e)
                     THEN xmaxOf(e) ELSE raw[e][k]]]
           lo == [e \in Tori |-> [k \in Cols |->
                     IF unconv[e][k] /\ hi[e][k] < -xmaxOf(e)
                     THEN LowClampValue(e) ELSE hi[e][k]]]
           un == [e \in Tori |-> [k \in Cols |->
                     still_unconv(unconv[e][k], dta[e][k])]]
           nun == Cardinality({<<e, k>> \in Tori \X Cols : un[e][k]})
           how == loop_exit(nun, cntr + 1)
       IN /\ xraw' = raw
          /\ xgrid' = lo
          /\ unconv' = un
          /\ ta' = [e \in Tori |-> [k \in Cols |->
                       IF un[e][k] THEN _anglea(lo[e][k], e, 1)
                                   ELSE ta[e][k]]]
          /\ cntr' = cntr + 1
          /\ twarned' = (how \in {"warning", "raise"})
          /\ traised' = IF how = "raise" THEN "RuntimeError" ELSE "none"
          /\ tpc' = CASE how = "continue" -> "newton"
                      [] how = "raise" -> "failed"
                      [] OTHER -> "mirror"
    /\ UNCHANGED <<pot, nE, nta, self, xseed, xsrc, qpc, qproc, qj, heap,
                   anglea, indx, qunconv, qta, qcntr, qwarned, qraised,
                   qresult>>
    /\ UNCHANGED lvars

\* The first mirroring assignment reading one column too far to the right.
MirrorSourceShifted(k) ==
    IF nta \div 4 + 1 <= k /\ k <= nta \div 2
    THEN (nta \div 4) - (k - (nta \div 4 + 1))
    ELSE IF nta \div 2 + 1 <= k /\ k <= (3 * nta) \div 4
    THEN (nta - 1) - (k - (nta \div 2 + 1))
    ELSE -1

\* The column whose value the mirroring assignments of lines 137-138 leave
\* in column k, -1 for a column they do not assign.
MirrorSource(k) ==
    IF nta \div 4 + 1 <= k /\ k <= nta \div 2
    THEN (nta \div 4 - 1) - (k - (nta \div 4 + 1))
    ELSE IF nta \div 2 + 1 <= k /\ k <= (3 * nta) \div 4
    THEN (nta - 1) - (k - (nta \div 2 + 1))
    ELSE -1

\* numpy.real(numpy.fft.rfft(f,axis=1))[n] for a row f over the columns
rfft_real(f, n) ==
    SumUpTo([k \in Cols |-> f[k] * cos(n * thetaa(k))], 0, nta - 1)

\* The rest of _create_xgrid and of __init__ (lines 137-151, 74-84)
init_finish ==
    /\ tpc = "mirror"
    /\ LET xg == [e \in Tori |-> [k \in Cols |->
                     IF MirrorSource(k) >= 0 THEN xgrid[e][MirrorSource(k)]
                                             ELSE xgrid[e][k]]]
           tam == [e \in Tori |-> [k \in Cols |->
                      IF nta \div 4 + 1 <= k /\ k < (3 * nta) \div 4
                      THEN _anglea(xg[e][k], e, -1) ELSE ta[e][k]]]
           ja == [e \in Tori |-> [k \in Cols |-> _ja(xg[e][k], e)]]
           djadj == [e \in Tori |-> [k \in Cols |-> _djadj(xg[e][k], e)]]
           js == [e \in Tori |-> TruncDiv(SumUpTo(ja[e], 0, nta - 1), nta)]
       IN /\ xgrid' = xg
          /\ ta' = tam
          /\ xsrc' = [k \in Cols |-> MirrorSource(k)]
          /\ self' = [Es |-> self.Es,
                      Omegas |-> self.Omegas,
                      xmaxs |-> self.xmaxs,
                      nta |-> self.nta,
                      thetaa |-> self.thetaa,
                      dta |-> [e \in Tori |-> [k \in Cols |->
                                  wrap(tam[e][k] - thetaa(k))]],
                      xgrid |-> xg,
                      ja |-> ja,
                      djadj |-> djadj,
                      js_orig |-> self.js,
                      js |-> js,
                      nSn |-> [e \in Tori |-> [n \in nforSn |->
                                  TruncDiv(rfft_real([k \in Cols |->
                                      ja[e][k] - js[e]], n), nta)]],
                      dSndJ |-> [e \in Tori |-> [n \in nforSn |->
                                  TruncDiv(TruncDiv(rfft_real([k \in Cols |->
                                      djadj[e][k] - CoefDen], n), n), nta)]]]
    /\ tpc' = "built"
    /\ UNCHANGED <<pot, nE, nta, unconv, cntr, twarned, traised, xseed, xraw,
                   qpc, qproc, qj, heap, anglea, indx, qunconv, qta, qcntr,
                   qwarned, qraised, qresult>>
    /\ UNCHANGED lvars

(* ---- queries: _Freqs, _xvFreqs, _evaluate ---- *)

\* The actions a query is asked for: around every stored action, and the
\* actions actionAngleVertical gave before they were replaced by the means.
JOffsets == {-2, -1, 0, 1, 2}

QueryJs ==
    {self.js[e] + d : e \in Tori, d \in JOffsets}
        \cup {self.js_orig[e] : e \in Tori}

\* The caller's angle arrays.
AngleInputs ==
    { <<0>>,
      <<Quarter \div 2, Pi + Quarter \div 3>>,
      <<TwoPi - Quarter \div 10, Pi - 1>> }

\* indx= numpy.argmin(numpy.fabs(j-self._js))
lookup(j) == argmin([e \in Tori |-> Abs(j - self.js[e])], Tori)

\* The lookup test with the tolerance itself rejected.
LookupFailsAtTol(j, J) == Abs(j - J) >= LookupTol

\* if numpy.fabs(j-self._js[indx]) > 1e-10: raise ValueError
LookupFails(j, J) == Abs(j - J) > LookupTol

\* No copy: the query works on the array it was given.
copy_alias(ref) == ref

\* copy.copy of an array is a new array: the reference it returns
copy_copy(ref) == "local"

\* anglea+2.*numpy.sum(self._dSndJ[indx]*numpy.sin(self._nforSn*anglea))
TaOf(e, a) ==
    LET S == SumUpTo([n \in nforSn |-> self.dSndJ[e][n] * sin(n * a)],
                     1, nta \div 2)
    IN a + TruncDiv(TruncDiv(2 * S, CoefDen) * RadUnits, SinScale * SinScale)

\* 1.+2.*numpy.sum(self._nforSn*self._dSndJ[indx]*numpy.cos(self._nforSn*
\* anglea)), as a fraction n/d
danglea(e, a) ==
    LET S == SumUpTo([n \in nforSn |-> n * self.dSndJ[e][n] * cos(n * a)],
                     1, nta \div 2)
    IN [n |-> CoefDen * SinScale + TruncDiv(2 * S, SinScale),
        d |-> CoefDen * SinScale]

\* maxda= 2.*numpy.pi/101
maxda == TwoPi \div 101

\* da= -dta/danglea, clipped to maxda (a zero danglea gives -+inf)
AngleStep(dta, dan) ==
    IF dan.n = 0 THEN -Sign(dta) * maxda
    ELSE Clip(-TruncDiv(dta * dan.d, dan.n), maxda)

\* ja= j+2.*numpy.sum(self._nSn[indx]*numpy.cos(self._nforSn*anglea))
JaOf(j, e, a) ==
    LET S == SumUpTo([n \in nforSn |-> self.nSn[e][n] * cos(n * a)],
                     1, nta \div 2)
    IN j + TruncDiv(2 * S, SinScale * SinScale)

\* No query is running.
QueryIdle == tpc = "built" /\ qpc \in {"idle", "returned", "raised"}

\* _Freqs (lines 279-282)
Freqs ==
    /\ QueryIdle
    /\ \E j \in QueryJs :
        LET i == lookup(j) IN
        /\ qj' = j
        /\ indx' = i
        /\ IF LookupFails(j, self.js[i])
           THEN /\ qraised' = "ValueError"
                /\ qresult' = <<>>
                /\ qpc' = "raised"
           ELSE /\ qraised' = "none"
                /\ qresult' = <<self.Omegas[i]>>
                /\ qpc' = "returned"
    /\ qproc' = "_Freqs"
    /\ heap' = [caller |-> <<>>, local |-> <<>>]
    /\ anglea' = "none"
    /\ qunconv' = <<>> /\ qta' = <<>> /\ qcntr' = 0 /\ qwarned' = FALSE
    /\ UNCHANGED <<pot, nE, nta, tpc, self, xgrid, unconv, ta, cntr, twarned,
                   traised, xseed, xraw, xsrc>>
    /\ UNCHANGED lvars

\* _xvFreqs up to its Newton loop (lines 206-223), called as p
xvFreqs_call(p) ==
    /\ QueryIdle
    /\ \E j \in QueryJs, angle \in AngleInputs :
        LET i == lookup(j)
            r == copy_copy("caller")
            h == [[caller |-> angle, local |-> <<>>] EXCEPT ![r] = angle]
            t0 == [m \in 1..Len(angle) |-> TaOf(i, h[r][m])]
        IN
        /\ qj' = j
        /\ indx' = i
        /\ IF LookupFails(j, self.js[i])
           THEN /\ qraised' = "ValueError"
                /\ qpc' = "raised"
                /\ heap' = [caller |-> angle, local |-> <<>>]
                /\ anglea' = "none"
                /\ qunconv' = <<>> /\ qta' = <<>>
           ELSE /\ qraised' = "none"
                /\ qpc' = "newton"
                /\ heap' = h
                /\ anglea' = r
                /\ qta' = t0
                /\ qunconv' = [m \in 1..Len(angle) |->
                                  still_unconv(TRUE,
                                               wrap(t0[m] - angle[m]))]
    /\ qproc' = p
    /\ qcntr' = 0
    /\ qwarned' = FALSE
    /\ qresult' = <<>>
    /\ UNCHANGED <<pot, nE, nta, tpc, self, xgrid, unconv, ta, cntr, twarned,
                   traised, xseed, xraw, xsrc>>
    /\ UNCHANGED lvars

xvFreqs_begin == xvFreqs_call("_xvFreqs")

\* _evaluate: return self._xvFreqs(j,angle,**kwargs)[:2]
evaluate_begin == xvFreqs_call("_evaluate")

\* One pass of the Newton loop of _xvFreqs (lines 225-247)
xvFreqs_newton ==
    /\ qpc = "newton"
    /\ LET A == heap[anglea]
           N == Len(A)
           dta == [m \in 1..N |-> wrap(qta[m] - heap["caller"][m])]
           newA == [m \in 1..N |->
                       IF qunconv[m]
                       THEN A[m] + AngleStep(dta[m], danglea(indx, A[m]))
                       ELSE A[m]]
           un == [m \in 1..N |-> still_unconv(qunconv[m], dta[m])]
           nun == Cardinality({m \in 1..N : un[m]})
           how == loop_exit(nun, qcntr + 1)
       IN /\ heap' = [heap EXCEPT ![anglea] = newA]
          /\ qunconv' = un
          /\ qta' = [m \in 1..N |->
                        IF un[m] THEN TaOf(indx, newA[m]) ELSE qta[m]]
          /\ qcntr' = qcntr + 1
          /\ qwarned' = (how \in {"warning", "raise"})
          /\ qraised' = IF how = "raise" THEN "RuntimeError" ELSE "none"
          /\ qpc' = CASE how = "continue" -> "newton"
                      [] how = "raise" -> "raised"
                      [] OTHER -> "exit"
    /\ UNCHANGED <<qproc, qj, anglea, indx, qresult>>
    /\ UNCHANGED <<pot, nE, nta, tpc, self, xgrid, unconv, ta, cntr, twarned,
                   traised, xseed, xraw, xsrc>>
    /\ UNCHANGED lvars

\* actionAngleHarmonicInverse(omega)(ja,anglea): x and v, left uncomputed
hoaainv(e, ja, A) ==
    << [of |-> "x", omega |-> self.Omegas[e], ja |-> ja, anglea |-> A],
       [of |-> "v", omega |-> self.Omegas[e], ja |-> ja, anglea |-> A] >>

\* The end of _xvFreqs (lines 249-253), cut to two items for _evaluate
xvFreqs_return ==
    /\ qpc = "exit"
    /\ LET A == heap[anglea]
           ja == [m \in 1..Len(A) |-> JaOf(qj, indx, A[m])]
           xv == hoaainv(indx, ja, A)
       IN qresult' = IF qproc = "_evaluate" THEN xv
                     ELSE Append(xv, self.Omegas[indx])
    /\ qpc' = "returned"
    /\ UNCHANGED <<qproc, qj, heap, anglea, indx, qunconv, qta, qcntr,
                   qwarned, qraised>>
    /\ UNCHANGED <<pot, nE, nta, tpc, self, xgrid, unconv, ta, cntr, twarned,
                   traised, xseed, xraw, xsrc>>
    /\ UNCHANGED lvars

\* No integrator is called during the life of the object.
LeapUnused ==
    /\ proc = "none" /\ meridional = 0 /\ yo = <<>> /\ nt = 0 /\ spacing = 0
    /\ rtol = 0 /\ atol = 0 /\ lpc = "unused"
    /\ y = <<>> /\ ey = <<>> /\ out = <<>>
    /\ dt = 0 /\ init_dt = 0 /\ ndt = 0 /\ to = 0 /\ ii = 0
    /\ err = "none" /\ nest = 0 /\ nkick = 0 /\ accept = 0 /\ dzero = FALSE
    /\ lraised = "none"

Init ==
    /\ pot \in {"harmonic", "lopsided"}
    /\ nE \in 1..MaxE
    /\ nta \in {4 * q : q \in 1..MaxQuads}
    /\ tpc = "new"
    /\ self = <<>>
    /\ xgrid = <<>> /\ unconv = <<>> /\ ta = <<>> /\ cntr = 0
    /\ twarned = FALSE /\ traised = "none"
    /\ xseed = <<>> /\ xraw = <<>> /\ xsrc = <<>>
    /\ qpc = "idle" /\ qproc = "none" /\ qj = 0
    /\ heap = [caller |-> <<>>, local |-> <<>>]
    /\ anglea = "none" /\ indx = 0 /\ qunconv = <<>> /\ qta = <<>>
    /\ qcntr = 0 /\ qwarned = FALSE /\ qraised = "none" /\ qresult = <<>>
    /\ LeapUnused

Next ==
    \/ init_begin
    \/ create_xgrid_newton
    \/ init_finish
    \/ Freqs
    \/ xvFreqs_begin
    \/ evaluate_begin
    \/ xvFreqs_newton
    \/ xvFreqs_return

Spec == Init /\ [][Next]_vars

-----------------------------------------------------------------------------
(*                    Properties of the integrators                        *)

\* The call has left the step estimator.
Estimated == lpc \in {"integrate", "done"}

\* C2: both _leapfrog and leapfrog_cyl return an array of len(t) rows whose
\* first row is the initial condition yo, in every mode and for every R.
C2_FirstRowIsYo ==
    lpc = "done" => /\ lraised = "none"
                    /\ Len(out) = nt
                    /\ out[1] = FinRow(yo)

\* C3: the step estimators terminate: the halving loop runs while the
\* reduction entering a pass is below the cap, so the passes are bounded
\* (2^nest < 4*_MAX_DT_REDUCE) and a call in the estimator can always go on;
\* they raise nothing and return a finite non-zero step; and when the error
\* is never accepted (err > 1 on return, as for rtol = atol = 0) the loop has
\* stopped because the reduction reached the cap.
C3_EstimatorTerminates ==
    /\ 2^nest < 4 * MAX_DT_REDUCE
    /\ lpc = "estimate" => ENABLED LeapNext
    /\ Estimated => /\ lraised = "none"
                    /\ dt # 0
                    /\ nest >= 1
                    /\ ErrGt1(err) => ~RatioLt(init_dt, dt, MAX_DT_REDUCE)

\* C3's case: zero tolerances, the error still above 1 when the estimator
\* returns, the step cut down to the cap.
C3_Witness ==
    /\ Estimated /\ rtol = 0 /\ atol = 0 /\ ErrGt1(err)
    /\ ~RatioLt(init_dt, dt, MAX_DT_REDUCE)
    /\ proc = "leapfrog_cyl"

\* C4: the returned step is never reduced by more than _MAX_DT_REDUCE:
\* init_dt/dt <= 10000 on return.
C4_ReductionWithinMax ==
    Estimated /\ dt # 0 => Abs(init_dt) <= MAX_DT_REDUCE * Abs(dt)

\* C7: ndt is fixed from the estimated step; the step is the spacing divided
\* by a power of two and ndt steps make up the spacing exactly; with ii-1
\* rows integrated the internal time is (ii-1) spacings past t[0] and
\* ndt*(ii-1) kicks have been evaluated, ndt*(len(t)-1) in all.
C7_UniformSubsteps ==
    Estimated =>
        /\ ndt = IntRatio(init_dt, dt)
        /\ ndt * dt = init_dt
        /\ \E k \in 0..nest : dt * 2^k = init_dt
        /\ to = (ii - 1) * init_dt
        /\ nkick = ndt * (ii - 1)
        /\ lpc = "done" => nkick = ndt * (nt - 1)

\* C7's case: a finished run of two intervals with several sub-steps each.
C7_Witness ==
    /\ lpc = "done" /\ nt = 3 /\ ndt = 4 /\ nkick = 8 /\ to = 2 * init_dt

-----------------------------------------------------------------------------
(*             Properties of actionAngleVerticalInverse                    *)

\* A query has done its lookup.
LookedUp == tpc = "built" /\ qproc # "none"

\* No stored action is within the tolerance of the query's action.
NotFound == \A e \in Tori : Abs(qj - self.js[e]) > LookupTol

\* C1: _Freqs and _xvFreqs/_evaluate raise the "not found" ValueError exactly
\* when every stored (grid-mean) action is more than 1e-10 from j; otherwise
\* they select a torus whose action is as close to j as any and return that
\* torus's frequency (_Freqs alone, _xvFreqs as its last item).
C1_LookupFailsIffFar ==
    LookedUp =>
        /\ (qraised = "ValueError") <=> NotFound
        /\ (qpc = "raised") <=> NotFound
        /\ ~NotFound =>
            /\ indx \in Tori
            /\ \A e \in Tori :
                   Abs(qj - self.js[indx]) <= Abs(qj - self.js[e])
            /\ (qpc = "returned" /\ qproc \in {"_Freqs", "_xvFreqs"}) =>
                   qresult[Len(qresult)] = self.Omegas[indx]

\* C1's case: a frequency query answered for an action exactly the
\* tolerance away from two stored actions.
C1_Witness ==
    /\ qpc = "returned" /\ qproc = "_Freqs" /\ nE >= 2
    /\ Abs(qj - self.js[1]) = LookupTol
    /\ Abs(qj - self.js[2]) = LookupTol
    /\ qresult = <<self.Omegas[1]>>

\* Some element of the grid loop is still unconverged.
GridUnconverged == \E e \in Tori, k \in Cols : unconv[e][k]

\* Some element of the query's loop is still unconverged.
QueryUnconverged == \E m \in DOMAIN qunconv : qunconv[m]

\* C5: both Newton loops terminate and fail softly.  Every step taken
\* inside a loop is one counted pass, the count never passes maxiter+1, and
\* the loop is then left; no RuntimeError is ever raised; a loop left with
\* elements unconverged has run over the cap and printed its warning; after
\* the loop the construction completes with the grid of the last pass stored
\* and the query returns the auxiliary angles of the last pass.
C5_NewtonLoopsTerminate ==
    [][ /\ traised' = "none" /\ qraised' # "RuntimeError"
        /\ tpc = "newton" =>
              /\ cntr' = cntr + 1 /\ cntr' <= maxiter + 1
              /\ tpc' \in {"newton", "mirror"}
              /\ (tpc' = "newton") => (cntr' <= maxiter)
        /\ (tpc' = "mirror" /\ GridUnconverged') =>
              (twarned' /\ cntr' > maxiter)
        /\ tpc = "mirror" =>
              /\ tpc' = "built"
              /\ self'.xgrid = xgrid'
              /\ \A e \in Tori, k \in Cols :
                     ~Masked(k) => self'.xgrid[e][k] = xgrid[e][k]
        /\ qpc = "newton" =>
              /\ qcntr' = qcntr + 1 /\ qcntr' <= maxiter + 1
              /\ qpc' \in {"newton", "exit"}
              /\ (qpc' = "newton") => (qcntr' <= maxiter)
        /\ (qpc' = "exit" /\ QueryUnconverged') =>
              (qwarned' /\ qcntr' > maxiter)
        /\ qpc = "exit" =>
              /\ qpc' = "returned"
              /\ qresult'[1].anglea = heap[anglea]
      ]_vars

\* C5's case: a query returns after its loop ran over the cap, on an object
\* whose grid loop ran over the cap as well.
C5_Witness ==
    /\ qpc = "returned" /\ qwarned /\ QueryUnconverged
    /\ tpc = "built" /\ twarned /\ GridUnconverged

\* C6: once the object is built no step changes its attributes, and no
\* step of a running query changes the caller's angle array.
C6_QueriesReadOnly ==
    [][ (tpc = "built" => self' = self)
        /\ (qpc \in {"newton", "exit"} => heap'.caller = heap.caller) ]_vars

\* C6's case: a query returned after moving its own copy of the angles away
\* from the caller's.
C6_Witness ==
    /\ qpc = "returned" /\ qproc = "_evaluate" /\ qcntr > 1
    /\ heap.local # heap.caller

\* C8: neither Newton loop runs more than maxiter = 100 passes.
C8_AtMostMaxiterPasses == cntr <= maxiter /\ qcntr <= maxiter

\* C9: after a pass of the grid loop every updated position that moved above
\* +xmax is at +xmax and every one that moved below -xmax is at -xmax.
C9_ClampedToOvershotSide ==
    (tpc \in {"newton", "mirror"} /\ cntr > 0) =>
        \A e \in Tori, k \in Cols :
            /\ xraw[e][k] > xmaxOf(e) => xgrid[e][k] = xmaxOf(e)
            /\ xraw[e][k] < -xmaxOf(e) => xgrid[e][k] = -xmaxOf(e)

\* Column k was left unmasked for the Newton iteration, or the mirroring
\* assignments filled it from such a column.
RefinedOrMirrored(k) ==
    \/ ~Masked(k)
    \/ /\ xsrc[k] >= 0
       /\ ~Masked(xsrc[k])
       /\ \A e \in Tori : self.xgrid[e][k] = self.xgrid[e][xsrc[k]]

\* C10 as stated: every column of the finished grid is directly refined or
\* mirrored from a directly refined column.
C10_EveryColumnRefined ==
    tpc = "built" => \A k \in Cols : RefinedOrMirrored(k)

\* The columns at thetaa = pi/2 and 3pi/2.
TurningColumns == {nta \div 4, (3 * nta) \div 4}

\* C10, amended: every column except the two turning-point columns nta/4 and
\* 3nta/4 is directly refined or mirrored from a directly refined column;
\* those two are masked, are assigned from no other column and keep their
\* seed values.
C10_AllButTurningColumns ==
    tpc = "built" =>
        /\ \A k \in Cols \ TurningColumns : RefinedOrMirrored(k)
        /\ \A k \in TurningColumns :
               /\ Masked(k)
               /\ xsrc[k] \in {-1, k}
               /\ \A e \in Tori : self.xgrid[e][k] = xseed[e][k]

\* C10's case: a finished grid of eight columns whose refinement moved a
\* column that a masked column was then mirrored from.
C10_Witness ==
    /\ tpc = "built" /\ nta = 8 /\ xsrc[3] = 1
    /\ \E e \in Tori : /\ self.xgrid[e][1] # xseed[e][1]
                       /\ self.xgrid[e][3] = self.xgrid[e][1]


\* An element of either Newton loop that left the unconverged state inside
\* the loop, at a value other than the one the loop started from.
GridConvergedInLoop ==
    /\ tpc \in {"newton", "mirror"}
    /\ \E e \in Tori, k \in Cols :
          ~Masked(k) /\ ~unconv[e][k] /\ xgrid[e][k] # xseed[e][k]

QueryConvergedInLoop ==
    /\ qpc \in {"newton", "exit"}
    /\ \E m \in 1..Len(qunconv) :
          ~qunconv[m] /\ heap[anglea][m] # heap["caller"][m]

\* C11 as stated: in both Newton loops an element whose residual has been
\* measured within the tolerance receives no further update, so the value of
\* an element that turns converged in a pass is the value its residual was
\* evaluated at, the one it had when the pass began.
C11_ConvergedValueIsEvaluated ==
    [][/\ tpc = "newton" =>
            \A e \in Tori, k \in Cols :
               (unconv[e][k] /\ ~unconv'[e][k])
                  => xgrid'[e][k] = xgrid[e][k]
       /\ qpc = "newton" =>
            \A m \in 1..Len(qunconv) :
               (qunconv[m] /\ ~qunconv'[m])
                  => heap'[anglea][m] = heap[anglea][m]]_vars

\* C11 amended: in both Newton loops an element turns converged exactly in
\* the pass whose residual, measured before the update, meets the tolerance,
\* and never in the first pass; converged is terminal from the next pass on
\* (no update, no new residual, never unconverged again); but in the pass
\* that measures the residual the element still receives the clipped Newton
\* update computed from it, and its stored residual stays the one of the
\* value before that update.
C11_ConvergedAfterLastUpdate ==
    [][/\ tpc = "newton" =>
            \A e \in Tori, k \in Cols :
               LET res == wrap(ta[e][k] - thetaa(k))
               IN /\ ~unconv[e][k] =>
                       /\ ~unconv'[e][k]
                       /\ xgrid'[e][k] = xgrid[e][k]
                       /\ ta'[e][k] = ta[e][k]
                  /\ unconv[e][k] =>
                       /\ unconv'[e][k] <=> Abs(res) > tol
                       /\ xraw'[e][k] = xgrid[e][k]
                             + Clip(NewtonStep(res, _danglea(xgrid[e][k], e)),
                                    maxdx(e))
                       /\ ~unconv'[e][k] => (ta'[e][k] = ta[e][k] /\ cntr >= 1)
       /\ qpc = "newton" =>
            \A m \in 1..Len(qunconv) :
               LET res == wrap(qta[m] - heap["caller"][m])
               IN /\ ~qunconv[m] =>
                       /\ ~qunconv'[m]
                       /\ heap'[anglea][m] = heap[anglea][m]
                       /\ qta'[m] = qta[m]
                  /\ qunconv[m] =>
                       /\ qunconv'[m] <=> Abs(res) > tol
                       /\ heap'[anglea][m] = heap[anglea][m]
                             + AngleStep(res, danglea(indx, heap[anglea][m]))
                       /\ ~qunconv'[m] => (qta'[m] = qta[m] /\ qcntr >= 1)]_vars

\* An object whose grid has an element that converged inside the loop, and a
\* query on it with an element that converged inside its loop, next to one
\* that the initial test had already passed.
C11_Witness ==
    /\ tpc = "built"
    /\ \E e \in Tori, k \in Cols :
          ~Masked(k) /\ ~unconv[e][k] /\ xraw[e][k] # xseed[e][k]
    /\ QueryConvergedInLoop
    /\ qpc = "exit"
    /\ \E m \in 1..Len(qunconv) :
          ~qunconv[m] /\ heap[anglea][m] = heap["caller"][m]

\* C12: in leapfrog_cyl, outside meridional mode and for states longer than
\* 2, the transverse velocity is replaced by the angular momentum vT*R before
\* any integration work, so that the state the step-size estimator passes to
\* drift and kick carries vT*R in component 2 just as the integrated state
\* does; in meridional mode or for a state of length 2 both are yo itself.
C12_LzBeforeEstimator ==
    (proc = "leapfrog_cyl" /\ lpc = "estimate") =>
        IF meridional = 0 /\ Len(yo) # 2
        THEN /\ y = [yo EXCEPT ![3] = yo[3] * yo[1]]
             /\ ey = [yo EXCEPT ![3] = yo[3] * yo[1]]
        ELSE y = yo /\ ey = yo

====
